---- MODULE Spec2Model ----
(***************************************************************************)
(* Dark Mind analytics store (analytics.py), run gate and daily schedule   *)
(* (scheduler.py) and topic freshness filter (run_pipeline.py).            *)
(*                                                                         *)
(* The SQLite tables are sequences / functions of rows.  Floating point    *)
(* quantities (engagement_rate, AVG(...)) are exact rationals <<n, d>> in  *)
(* lowest terms.  A topic is the sequence of its characters.  The order    *)
(* SQLite gives to rows that tie on the ORDER BY key is not specified, so  *)
(* a query with ORDER BY yields any of the orders the key permits.         *)
(***************************************************************************)
EXTENDS Integers, Sequences, FiniteSets, TLC

VARIABLES
  videos,              \* table videos, in rowid order
  hourly_performance,  \* table hourly_performance: hour -> row
  format_performance,  \* table format_performance: format -> row
  clock,               \* local wall clock [day, hour, minute]
  settings,            \* settings.json: max_videos_per_day, or "absent"
  last_run_hour,       \* scheduler._last_run_hour
  daily_run_count,     \* scheduler._daily_run_count
  today_schedule,      \* scheduler._today_schedule
  schedule_date,       \* scheduler._schedule_date
  db_available,        \* whether sqlite3 calls on analytics.db succeed
  thread_pc,           \* where the scheduler's main thread and start-up thread are
  run_now,             \* now of the run_once each thread is in
  next_run,            \* when the job of schedule.every(...).do(run_once) is due
  writer,              \* where each connection that runs update_performance is
  write_lock,          \* the connection that holds analytics.db's write lock
  ret                  \* the last operation, its arguments and what it returned

vars ==
  <<videos, hourly_performance, format_performance, clock, settings,
    last_run_hour, daily_run_count, today_schedule, schedule_date,
    db_available, thread_pc, run_now, next_run, writer, write_lock, ret>>

store_vars == <<videos, hourly_performance, format_performance>>

sched_vars == <<last_run_hour, daily_run_count, today_schedule, schedule_date>>

txn_vars == <<writer, write_lock>>

proc_vars == <<db_available, thread_pc, run_now, next_run, writer, write_lock>>

(***************************************************************************)
(* Program constants                                                       *)
(***************************************************************************)
PUMP_THRESHOLD == 10000

ACTIVE_HOURS_START == 6

ACTIVE_HOURS_END == 23

_DEFAULT_MAX_VIDEOS == 4

PSYCHOLOGY_PEAK_HOURS ==
  [wd \in 0..6 |->
     CASE wd = 0 -> <<7, 8, 12, 19, 20>>
       [] wd = 1 -> <<7, 8, 12, 19, 20, 21>>
       [] wd = 2 -> <<7, 8, 12, 19, 20, 21>>
       [] wd = 3 -> <<7, 8, 12, 19, 20>>
       [] wd = 4 -> <<7, 8, 12, 19>>
       [] wd = 5 -> <<10, 11, 12, 14, 20>>
       [] wd = 6 -> <<11, 12, 14, 19>>]

PEAK_HOURS ==
  [wd \in 0..6 |->
     CASE wd = 0 -> <<7, 8, 12, 19, 20>>
       [] wd = 1 -> <<7, 8, 12, 19, 20, 21>>
       [] wd = 2 -> <<7, 8, 12, 19, 20, 21>>
       [] wd = 3 -> <<7, 8, 12, 19, 20>>
       [] wd = 4 -> <<7, 8, 12, 19>>
       [] wd = 5 -> <<10, 11, 12, 14, 20>>
       [] wd = 6 -> <<11, 12, 14, 19>>]

ALL_FORMATS == <<"story_lesson", "scary_truth", "hidden_psychology">>

(***************************************************************************)
(* Arithmetic                                                              *)
(***************************************************************************)
Max(a, b) == IF a >= b THEN a ELSE b

Min(a, b) == IF a <= b THEN a ELSE b

Range(s) == {s[i] : i \in 1..Len(s)}

RECURSIVE GCD(_, _)
GCD(a, b) == IF b = 0 THEN a ELSE GCD(b, a % b)

\* the rational n/d (d > 0, n >= 0) in lowest terms
Rat(n, d) == LET g == GCD(n, d) IN <<n \div g, d \div g>>

RatAdd(a, b) == Rat(a[1] * b[2] + b[1] * a[2], a[2] * b[2])

RatDivInt(a, k) == Rat(a[1], a[2] * k)

RatLE(a, b) == a[1] * b[2] <= b[1] * a[2]


RECURSIVE SumInt(_)
SumInt(s) == IF s = <<>> THEN 0 ELSE Head(s) + SumInt(Tail(s))

RECURSIVE SumRat(_)
SumRat(s) == IF s = <<>> THEN <<0, 1>> ELSE RatAdd(Head(s), SumRat(Tail(s)))

\* SQL AVG over an integer column / over a REAL column (rows non-empty)
AvgInt(s) == Rat(SumInt(s), Len(s))

AvgRat(s) == RatDivInt(SumRat(s), Len(s))

\* the rows of a table (a sequence) that satisfy Test, in table order
SelectRows(rows, Test(_)) ==
  LET F[i \in 0..Len(rows)] ==
        IF i = 0 THEN <<>>
        ELSE IF Test(rows[i]) THEN Append(F[i - 1], rows[i]) ELSE F[i - 1]
  IN F[Len(rows)]

Column(rows, Field(_)) == [i \in 1..Len(rows) |-> Field(rows[i])]

\* every result SQL may give for "ORDER BY key DESC LIMIT n" over the set S,
\* where Below(x, y) says key(x) <= key(y); a negative LIMIT is no limit
OrderByDescLimit(S, Below(_, _), n) ==
  LET k == IF n < 0 THEN Cardinality(S) ELSE Min(n, Cardinality(S))
  IN {s \in [1..k -> S] :
        /\ \A i, j \in 1..k : i # j => s[i] # s[j]
        /\ \A i \in 1..k : \A j \in 1..k : i < j => Below(s[j], s[i])
        /\ \A x \in S \ Range(s) : \A i \in 1..k : Below(x, s[i])}

(***************************************************************************)
(* Text                                                                    *)
(***************************************************************************)
UpperCase ==
  <<"A", "B", "C", "D", "E", "F", "G", "H", "I", "J", "K", "L", "M",
    "N", "O", "P", "Q", "R", "S", "T", "U", "V", "W", "X", "Y", "Z">>

LowerCase ==
  <<"a", "b", "c", "d", "e", "f", "g", "h", "i", "j", "k", "l", "m",
    "n", "o", "p", "q", "r", "s", "t", "u", "v", "w", "x", "y", "z">>

Digits == {"0", "1", "2", "3", "4", "5", "6", "7", "8", "9"}

\* str.lower(), one character
LowerOf == [i \in 1..26 |-> <<UpperCase[i], LowerCase[i]>>]

lower(c) ==
  IF c \in Range(UpperCase)
  THEN (CHOOSE p \in Range(LowerOf) : p[1] = c)[2]
  ELSE c

\* the class [a-z0-9 ]
Kept == Range(LowerCase) \cup Digits \cup {" "}

\* re.sub(r"[^a-z0-9 ]", "", text)
re_sub(text) == SelectRows(text, LAMBDA c : c \in Kept)

\* str.split(): the maximal runs of non-blank characters
RECURSIVE split(_, _)
split(text, word) ==
  IF text = <<>> THEN (IF word = <<>> THEN {} ELSE {word})
  ELSE IF Head(text) = " "
       THEN (IF word = <<>> THEN {} ELSE {word}) \cup split(Tail(text), <<>>)
       ELSE split(Tail(text), Append(word, Head(text)))

\* run_pipeline._STOP
_STOP ==
  {
    <<"t","h","e">>, <<"a">>, <<"a","n">>, <<"o","f">>, <<"i","n">>, <<"t","o">>,
    <<"h","o","w">>, <<"w","h","y">>, <<"w","h","a","t">>, <<"i","s">>, <<"a","r","e">>,
    <<"w","a","s">>, <<"w","e","r","e">>, <<"b","e">>, <<"b","e","e","n">>, <<"i">>,
    <<"y","o","u">>, <<"w","e">>, <<"t","h","e","y">>, <<"i","t">>, <<"t","h","i","s">>,
    <<"t","h","a","t">>, <<"f","o","r">>, <<"o","n">>, <<"a","t">>, <<"b","y">>,
    <<"w","i","t","h">>, <<"f","r","o","m">>, <<"a","n","d">>, <<"o","r">>, <<"b","u","t">>,
    <<"d","o">>, <<"d","o","e","s">>, <<"d","i","d">>, <<"h","a","v","e">>, <<"h","a","s">>,
    <<"h","a","d">>, <<"n","o","t">>, <<"n","o">>, <<"s","o">>, <<"i","f">>, <<"a","s">>,
    <<"c","a","n">>, <<"w","i","l","l">>, <<"j","u","s","t">>, <<"a","b","o","u","t">>,
    <<"i","n","t","o">>, <<"i","t","s">>, <<"s">>, <<"y","o","u","r">>
  }

\* 'Trader lost everything in 2021'
TraderLostEverything ==
  <<
    "T", "r", "a", "d", "e", "r", " ", "l", "o", "s", "t", " ", "e", "v", "e", "r", "y", "t",
    "h", "i", "n", "g", " ", "i", "n", " ", "2", "0", "2", "1"
  >>

\* 'The trader lost everything, in 2021!'
TheTraderLostEverything ==
  <<
    "T", "h", "e", " ", "t", "r", "a", "d", "e", "r", " ", "l", "o", "s", "t", " ", "e", "v",
    "e", "r", "y", "t", "h", "i", "n", "g", ",", " ", "i", "n", " ", "2", "0", "2", "1", "!"
  >>

\* 'Trader lost it all in 2021'
TraderLostItAll ==
  <<
    "T", "r", "a", "d", "e", "r", " ", "l", "o", "s", "t", " ", "i", "t", " ", "a", "l", "l",
    " ", "i", "n", " ", "2", "0", "2", "1"
  >>

\* 'Trader lost everything in 2021 part 2'
TraderPart2 ==
  <<
    "T", "r", "a", "d", "e", "r", " ", "l", "o", "s", "t", " ", "e", "v", "e", "r", "y", "t",
    "h", "i", "n", "g", " ", "i", "n", " ", "2", "0", "2", "1", " ", "p", "a", "r", "t", " ",
    "2"
  >>

\* 'Why you fail'
WhyYouFail ==
  <<
    "W", "h", "y", " ", "y", "o", "u", " ", "f", "a", "i", "l"
  >>

\* the topics the specifications log and filter
KnownTopics ==
  {TraderLostEverything, TheTraderLostEverything, TraderLostItAll, TraderPart2, WhyYouFail}

(***************************************************************************)
(* Clock                                                                   *)
(***************************************************************************)
\* time.time(), in minutes
Timestamp(c) == (c.day * 24 + c.hour) * 60 + c.minute

\* datetime.now().weekday(); day 0 is a Monday
Weekday(c) == c.day % 7

\* datetime.now().strftime("%Y-%m-%d")
Today(c) == c.day

\* datetime.now().replace(hour=0, minute=0, second=0, microsecond=0).timestamp()
TodayStart(c) == Timestamp([day |-> c.day, hour |-> 0, minute |-> 0])

(***************************************************************************)
(* analytics.py: writes                                                    *)
(***************************************************************************)
None == "None"

HasRun(vs, run_id) == \E i \in 1..Len(vs) : vs[i].run_id = run_id

\* the row INSERT builds: the listed columns, every other column its DEFAULT
NewRow(run_id, script_data, now) ==
  [run_id           |-> run_id,
   format           |-> script_data.format,
   topic            |-> script_data.topic,
   hook_text        |-> script_data.hook_text,
   post_hour        |-> now.hour,
   post_day_of_week |-> Weekday(now),
   created_at       |-> Timestamp(now),
   views            |-> 0,
   likes            |-> 0,
   comments         |-> 0,
   shares           |-> 0,
   engagement_rate  |-> <<0, 1>>,
   pumped           |-> 0,
   youtube_id       |-> "",
   tiktok_id        |-> "",
   youtube_url      |-> <<>>,
   tiktok_url       |-> <<>>]

\* a slip: INSERT OR REPLACE, which drops the row that holds the run_id
log_video_replace(vs, run_id, script_data, now) ==
  SelectRows(vs, LAMBDA r : r.run_id # run_id) \o <<NewRow(run_id, script_data, now)>>

\* INSERT OR IGNORE INTO videos: run_id is UNIQUE
log_video(vs, run_id, script_data, now) ==
  IF HasRun(vs, run_id) THEN vs
  ELSE Append(vs, NewRow(run_id, script_data, now))

\* a slip: divides by views + 1
engagement_plus_one(views, likes, comments, shares) ==
  Rat((likes + comments + shares) * 100, views + 1)

\* engagement = (likes + comments + shares) / max(views, 1) * 100
engagement(views, likes, comments, shares) ==
  Rat((likes + comments + shares) * 100, Max(views, 1))

\* a slip: > for >=
pumped_strict(views) == IF views > PUMP_THRESHOLD THEN 1 ELSE 0

\* pumped = 1 if views >= PUMP_THRESHOLD else 0
pumped(views) == IF views >= PUMP_THRESHOLD THEN 1 ELSE 0

\* UPDATE videos SET ... WHERE run_id=?
update_videos(vs, run_id, views, likes, comments, shares) ==
  [i \in 1..Len(vs) |->
     IF vs[i].run_id = run_id
     THEN [vs[i] EXCEPT !.views = views, !.likes = likes, !.comments = comments,
                        !.shares = shares,
                        !.engagement_rate = engagement(views, likes, comments, shares),
                        !.pumped = pumped(views)]
     ELSE vs[i]]

Views(r) == r.views

EngagementRate(r) == r.engagement_rate

\* SELECT AVG(views), AVG(engagement_rate), COUNT(*) over the given rows
Aggregate(rows) ==
  [avg_views      |-> AvgInt(Column(rows, Views)),
   avg_engagement |-> AvgRat(Column(rows, EngagementRate)),
   total_videos   |-> Len(rows)]

HourRows(vs, hour) == SelectRows(vs, LAMBDA r : r.post_hour = hour /\ r.views > 0)

FormatRows(vs, fmt) == SelectRows(vs, LAMBDA r : r.format = fmt /\ r.views > 0)

\* _recalculate_aggregates, the loop over range(24): INSERT OR REPLACE for the
\* hours that have a row with views > 0, the other rows of the table stay
recalculate_hourly(vs, hp) ==
  LET counted == {vs[i].post_hour : i \in {j \in 1..Len(vs) : vs[j].views > 0}} \cap (0..23)
  IN [h \in (DOMAIN hp) \cup counted |->
        IF h \in counted THEN Aggregate(HourRows(vs, h)) ELSE hp[h]]

\* SELECT topic FROM videos WHERE format=? AND pumped=1 ORDER BY views DESC LIMIT 10
best_topics(vs, fmt) ==
  LET S == {i \in 1..Len(vs) : vs[i].format = fmt /\ vs[i].pumped = 1}
  IN {[k \in 1..Len(s) |-> vs[s[k]].topic] :
        s \in OrderByDescLimit(S, LAMBDA x, y : vs[x].views <= vs[y].views, 10)}

FormatRow(vs, fmt, topics) ==
  [avg_views      |-> Aggregate(FormatRows(vs, fmt)).avg_views,
   avg_engagement |-> Aggregate(FormatRows(vs, fmt)).avg_engagement,
   total_videos   |-> Len(FormatRows(vs, fmt)),
   best_topics    |-> topics]

\* _recalculate_aggregates, the loop over the three formats: every table the
\* loop can leave (INSERT OR REPLACE for the formats that have a row with views > 0)
recalculate_format(vs, fp) ==
  LET counted == {f \in Range(ALL_FORMATS) : \E i \in 1..Len(vs) :
                                                vs[i].format = f /\ vs[i].views > 0}
  IN {[f \in (DOMAIN fp) \cup counted |->
         IF f \in counted
         THEN FormatRow(vs, f, IF f = ALL_FORMATS[1] THEN t1
                               ELSE IF f = ALL_FORMATS[2] THEN t2 ELSE t3)
         ELSE fp[f]] :
        t1 \in best_topics(vs, ALL_FORMATS[1]),
        t2 \in best_topics(vs, ALL_FORMATS[2]),
        t3 \in best_topics(vs, ALL_FORMATS[3])}

\* yt_url / tt_url: the fixed template and the identifier; <<>> is ''
youtube_url(yt_id) == IF yt_id # "" THEN <<"https://youtube.com/shorts/", yt_id>> ELSE <<>>

tiktok_url(tt_id) == IF tt_id # "" THEN <<"https://www.tiktok.com/@/video/", tt_id>> ELSE <<>>

\* a slip: the identifiers are written with INSERT OR REPLACE, which puts the
\* columns that are not listed back to their defaults
save_platform_ids_replace(vs, run_id, youtube_id, tiktok_id) ==
  [i \in 1..Len(vs) |->
     IF vs[i].run_id = run_id
     THEN [vs[i] EXCEPT !.youtube_id = youtube_id, !.tiktok_id = tiktok_id,
                        !.topic = <<>>, !.format = ""]
     ELSE vs[i]]

\* save_platform_ids: UPDATE videos SET youtube_id=?, tiktok_id=?, youtube_url=?,
\* tiktok_url=? WHERE run_id=?
save_platform_ids(vs, run_id, youtube_id, tiktok_id) ==
  LET yt_id == IF youtube_id \in {None, ""} THEN "" ELSE youtube_id
      tt_id == IF tiktok_id \in {None, ""} THEN "" ELSE tiktok_id
  IN [i \in 1..Len(vs) |->
        IF vs[i].run_id = run_id
        THEN [vs[i] EXCEPT !.youtube_id = yt_id, !.tiktok_id = tt_id,
                           !.youtube_url = youtube_url(yt_id),
                           !.tiktok_url = tiktok_url(tt_id)]
        ELSE vs[i]]

(***************************************************************************)
(* analytics.py: queries.  A query whose SQL has an ORDER BY is the set of *)
(* the results it can give.                                                *)
(***************************************************************************)
\* a slip: the follow-up query leaves out "created_at > ?"
followup_count_any_time(vs, i) ==
  Cardinality({j \in 1..Len(vs) :
                 /\ vs[j].topic = vs[i].topic
                 /\ vs[j].run_id # vs[i].run_id})

\* SELECT COUNT(*) FROM videos WHERE topic=? AND created_at > ? AND run_id != ?
followup_count(vs, i) ==
  Cardinality({j \in 1..Len(vs) :
                 /\ vs[j].topic = vs[i].topic
                 /\ vs[j].created_at > vs[i].created_at
                 /\ vs[j].run_id # vs[i].run_id})

CandidateDict(r) ==
  [run_id |-> r.run_id, topic |-> r.topic, format |-> r.format, views |-> r.views,
   hook_text |-> r.hook_text]

\* the rows of the outer SELECT that get_viral_candidates appends to results
needs_followup(vs, i) == followup_count(vs, i) = 0

get_viral_candidates(vs) ==
  LET P == {i \in 1..Len(vs) : vs[i].pumped = 1 /\ vs[i].topic # <<>>}
      orders == OrderByDescLimit(P, LAMBDA x, y : vs[x].views <= vs[y].views,
                                 Cardinality(P))
      kept(s) == SelectRows(s, LAMBDA i : needs_followup(vs, i))
  IN {[k \in 1..Len(kept(s)) |-> CandidateDict(vs[kept(s)[k]])] : s \in orders}

\* SELECT COUNT(*) FROM videos WHERE created_at >= today_start
get_today_video_count(vs, now) ==
  Cardinality({i \in 1..Len(vs) : vs[i].created_at >= TodayStart(now)})

\* SELECT topic, pumped FROM videos WHERE topic != '' ORDER BY created_at DESC
get_all_used_topics(vs) ==
  LET S == {i \in 1..Len(vs) : vs[i].topic # <<>>}
      orders == OrderByDescLimit(S, LAMBDA x, y : vs[x].created_at <= vs[y].created_at,
                                 Cardinality(S))
  IN {[used   |-> [k \in 1..Len(s) |-> vs[s[k]].topic],
       pumped |-> Column(SelectRows(s, LAMBDA i : vs[i].pumped = 1),
                         LAMBDA i : vs[i].topic)] : s \in orders}

DayHourRows(vs, day_of_week, hour) ==
  SelectRows(vs, LAMBDA r : r.post_day_of_week = day_of_week /\ r.views > 0
                             /\ r.post_hour = hour)

\* HAVING cnt >= 2
MIN_DAY_SAMPLES == 2

\* WHERE total_videos >= 3
MIN_HOUR_SAMPLES == 3

\* a slip: the tier 1 query leaves out "post_day_of_week = ?"
day_specific_hours_any_day(vs, day_of_week, n) ==
  LET rows(h) == SelectRows(vs, LAMBDA r : r.views > 0 /\ r.post_hour = h)
      G == {h \in 0..23 : Len(rows(h)) >= MIN_DAY_SAMPLES}
      avg_eng(h) == AvgRat(Column(rows(h), EngagementRate))
  IN OrderByDescLimit(G, LAMBDA x, y : RatLE(avg_eng(x), avg_eng(y)), n)

\* tier 1: GROUP BY post_hour HAVING cnt >= 2 ORDER BY avg_eng DESC LIMIT n
day_specific_hours(vs, day_of_week, n) ==
  LET G == {h \in 0..23 : Len(DayHourRows(vs, day_of_week, h)) >= MIN_DAY_SAMPLES}
      avg_eng(h) == AvgRat(Column(DayHourRows(vs, day_of_week, h), EngagementRate))
  IN OrderByDescLimit(G, LAMBDA x, y : RatLE(avg_eng(x), avg_eng(y)), n)

\* tier 2: FROM hourly_performance WHERE total_videos >= 3
\*         ORDER BY avg_engagement DESC LIMIT n
overall_hours(hp, n) ==
  LET G == {h \in DOMAIN hp : hp[h].total_videos >= MIN_HOUR_SAMPLES}
  IN OrderByDescLimit(G, LAMBDA x, y : RatLE(hp[x].avg_engagement, hp[y].avg_engagement), n)

get_best_hours_for_day(vs, hp, day_of_week, n) ==
  IF day_specific_hours(vs, day_of_week, n) # {<<>>}
  THEN day_specific_hours(vs, day_of_week, n)
  ELSE overall_hours(hp, n)

DAY_SPECIFIC_MIN == 4

CROSS_DAY_MIN == 6

\* a slip: the cross-day branch is tested first
tier_cross_first(day_count, any_count) ==
  IF any_count >= CROSS_DAY_MIN THEN "cross-day"
  ELSE IF day_count >= DAY_SPECIFIC_MIN THEN "day-specific"
  ELSE "psychology"

tier(day_count, any_count) ==
  IF day_count >= DAY_SPECIFIC_MIN THEN "day-specific"
  ELSE IF any_count >= CROSS_DAY_MIN THEN "cross-day"
  ELSE "psychology"

get_hour_confidence(vs, day_of_week) ==
  LET day_count == Len(SelectRows(vs, LAMBDA r : r.post_day_of_week = day_of_week
                                                  /\ r.views > 0))
      any_count == Len(SelectRows(vs, LAMBDA r : r.views > 0))
  IN [day_videos  |-> day_count,
      any_videos  |-> any_count,
      data_driven |-> tier(day_count, any_count) # "psychology",
      tier        |-> tier(day_count, any_count)]

\* a slip: the best row is taken whatever its total_videos
get_best_post_hour_any_count(hp, now) ==
  IF DOMAIN hp # {}
  THEN {s[1] : s \in OrderByDescLimit(DOMAIN hp,
                       LAMBDA x, y : RatLE(hp[x].avg_engagement, hp[y].avg_engagement), 1)}
  ELSE Range(PSYCHOLOGY_PEAK_HOURS[Weekday(now)])

\* get_best_post_hour: the row of hourly_performance, else random.choice(peaks)
get_best_post_hour(hp, now) ==
  IF overall_hours(hp, 1) # {<<>>}
  THEN {s[1] : s \in overall_hours(hp, 1)}
  ELSE Range(PSYCHOLOGY_PEAK_HOURS[Weekday(now)])

(***************************************************************************)
(* scheduler.py                                                            *)
(***************************************************************************)
\* get_max_videos_per_day: settings.json, else _DEFAULT_MAX_VIDEOS
get_max_videos_per_day ==
  IF settings.present THEN settings.max_videos_per_day ELSE _DEFAULT_MAX_VIDEOS

is_active_hour == ACTIVE_HOURS_START <= clock.hour /\ clock.hour < ACTIVE_HOURS_END

\* a slip: on a date change the counter keeps its value in memory
get_daily_count_from_memory ==
  IF daily_run_count.date # Today(clock)
  THEN [daily_run_count EXCEPT !.date = Today(clock)]
  ELSE daily_run_count

\* get_daily_count: _daily_run_count once the call has returned
get_daily_count ==
  IF daily_run_count.date # Today(clock)
  THEN [date  |-> Today(clock),
        count |-> IF db_available THEN get_today_video_count(videos, clock) ELSE 0]
  ELSE daily_run_count

\* inc_daily_count, applied to the counter get_daily_count leaves
inc_daily_count(drc) == [drc EXCEPT !.count = drc.count + 1]

\* the loop of step 3: the first occurrence of every hour, in order
RECURSIVE Dedup(_, _)
Dedup(hours, seen) ==
  IF hours = <<>> THEN <<>>
  ELSE IF Head(hours) \in seen THEN Dedup(Tail(hours), seen)
  ELSE <<Head(hours)>> \o Dedup(Tail(hours), seen \cup {Head(hours)})

\* sorted(...) of a set of hours
RECURSIVE Sorted(_)
Sorted(S) ==
  IF S = {} THEN <<>>
  ELSE LET least == CHOOSE x \in S : \A y \in S : x <= y
       IN <<least>> \o Sorted(S \ {least})

\* active[:max_vids], max_vids >= 0
Take(s, n) == SubSeq(s, 1, Min(n, Len(s)))

\* the minutes random.randint(5, 55) is sampled at
JitterMinutes == {5, 55}

\* a slip: step 4 does not restrict the hours to the active window
chosen_hours_any_hour(learned, weekday, max_vids) ==
  Take(Sorted(Range(Dedup(learned \o PEAK_HOURS[weekday], {}))), max_vids)

\* steps 2 to 4 of build_daily_schedule for the learned hours given
chosen_hours(learned, weekday, max_vids) ==
  LET psych    == PEAK_HOURS[weekday]
      combined == Dedup(learned \o psych, {})
      active   == Sorted({h \in Range(combined) :
                            ACTIVE_HOURS_START <= h /\ h < ACTIVE_HOURS_END})
  IN Take(active, max_vids)

\* step 5: chosen = [(h, random.randint(5, 55)) for h in chosen_hours]
with_jitter(hours) ==
  {[k \in 1..Len(hours) |-> <<hours[k], m[k]>>] : m \in [1..Len(hours) -> JitterMinutes]}

\* a slip: the query's answer is used although the query failed
learned_hours_unguarded ==
  get_best_hours_for_day(videos, hourly_performance, Weekday(clock), get_max_videos_per_day)

\* step 1: learned = get_best_hours_for_day(weekday, n=max_vids), [] when the
\* query fails
learned_hours ==
  IF db_available
  THEN get_best_hours_for_day(videos, hourly_performance, Weekday(clock),
                              get_max_videos_per_day)
  ELSE {<<>>}

\* step 1: tier = get_hour_confidence(weekday)["tier"], "psychology" when the
\* query fails
schedule_tier ==
  IF db_available THEN get_hour_confidence(videos, Weekday(clock)).tier ELSE "psychology"

\* build_daily_schedule: every schedule it can return
build_daily_schedule ==
  UNION {with_jitter(chosen_hours(learned, Weekday(clock), get_max_videos_per_day)) :
           learned \in learned_hours}

\* get_today_schedule: every value of _today_schedule the call can leave
get_today_schedule ==
  IF schedule_date # Today(clock) \/ today_schedule = <<>>
  THEN build_daily_schedule
  ELSE {today_schedule}

schedule_hours(schedule) == {schedule[k][1] : k \in 1..Len(schedule)}

\* next(m for h, m in schedule if h == now.hour)
target_minute(schedule, hour) ==
  schedule[CHOOSE k \in 1..Len(schedule) :
             /\ schedule[k][1] = hour
             /\ \A j \in 1..(k - 1) : schedule[j][1] # hour][2]

Outcome(ok, reason, drc, schedule, sdate) ==
  [ok |-> ok, reason |-> reason, daily_run_count |-> drc,
   today_schedule |-> schedule, schedule_date |-> sdate]

\* a slip: the minute of the slot is not waited for
should_run_now_no_minute ==
  IF ~is_active_hour
  THEN {Outcome(FALSE, "Outside active hours", daily_run_count, today_schedule,
                schedule_date)}
  ELSE IF clock.hour = last_run_hour
  THEN {Outcome(FALSE, "Already ran this hour", daily_run_count, today_schedule,
                schedule_date)}
  ELSE IF get_daily_count.count >= get_max_videos_per_day
  THEN {Outcome(FALSE, "Daily cap reached", get_daily_count, today_schedule,
                schedule_date)}
  ELSE {IF clock.hour \notin schedule_hours(schedule)
        THEN Outcome(FALSE, "Not a scheduled slot", get_daily_count, schedule,
                     Today(clock))
        ELSE Outcome(TRUE, "OK", get_daily_count, schedule, Today(clock)) :
        schedule \in get_today_schedule}

\* should_run_now: what it returns and the scheduler state it leaves, for every
\* schedule a rebuild can give.  The reason is the fixed head of the message.
should_run_now ==
  IF ~is_active_hour
  THEN {Outcome(FALSE, "Outside active hours", daily_run_count, today_schedule,
                schedule_date)}
  ELSE IF clock.hour = last_run_hour
  THEN {Outcome(FALSE, "Already ran this hour", daily_run_count, today_schedule,
                schedule_date)}
  ELSE IF get_daily_count.count >= get_max_videos_per_day
  THEN {Outcome(FALSE, "Daily cap reached", get_daily_count, today_schedule,
                schedule_date)}
  ELSE {IF clock.hour \notin schedule_hours(schedule)
        THEN Outcome(FALSE, "Not a scheduled slot", get_daily_count, schedule,
                     Today(clock))
        ELSE IF clock.minute < target_minute(schedule, clock.hour)
        THEN Outcome(FALSE, "Waiting for", get_daily_count, schedule, Today(clock))
        ELSE Outcome(TRUE, "OK", get_daily_count, schedule, Today(clock)) :
        schedule \in get_today_schedule}

\* a slip: the last candidate is taken, the one with the fewest views
viral_pick_last ==
  {IF c # <<>> THEN [topic |-> c[Len(c)].topic, run_id |-> c[Len(c)].run_id]
   ELSE [topic |-> <<>>, run_id |-> 0] :
     c \in IF db_available THEN get_viral_candidates(videos) ELSE {<<>>}}

\* run_once: best = candidates[0] of get_viral_candidates() ([] when the query
\* fails) and viral_topic = best["topic"]; topic <<>> is None
viral_pick ==
  {IF c # <<>> THEN [topic |-> c[1].topic, run_id |-> c[1].run_id]
   ELSE [topic |-> <<>>, run_id |-> 0] :
     c \in IF db_available THEN get_viral_candidates(videos) ELSE {<<>>}}

(***************************************************************************)
(* run_pipeline.py: topic freshness                                        *)
(***************************************************************************)
\* set(re.sub(r"[^a-z0-9 ]", "", topic.lower()).split()) - _STOP
topic_words_of(topic) ==
  split(re_sub([i \in 1..Len(topic) |-> lower(topic[i])]), <<>>) \ _STOP

\* topic_words_of, evaluated once for the topics of the specifications
KnownTopicWords == [t \in KnownTopics |-> topic_words_of(t)]

\* _topic_words: the meaningful lowercased words of a topic
_topic_words(topic) ==
  IF topic \in KnownTopics THEN KnownTopicWords[topic] ELSE topic_words_of(topic)

OVERLAP_MIN == 3

\* _topic_is_fresh: no used topic reaches "return False"
_topic_is_fresh(candidate, used_info) ==
  LET cand_words == _topic_words(candidate)
      pumped_set == {_topic_words(used_info.pumped[k]) : k \in 1..Len(used_info.pumped)}
  IN \A k \in 1..Len(used_info.used) :
       \/ _topic_words(used_info.used[k]) \in pumped_set
       \/ Cardinality(cand_words \cap _topic_words(used_info.used[k])) < OVERLAP_MIN

\* get_intelligence_for_format(fmt) when topics_queue.json is missing or stale
NoIntel == [best_topic_right_now |-> <<>>, main_topics |-> <<>>]

\* _pick_fresh_topic: the candidates of one format, in the order they are tried
candidates(trends, intel, fmt) ==
  (IF intel[fmt].best_topic_right_now # <<>>
   THEN <<intel[fmt].best_topic_right_now>> ELSE <<>>)
  \o Take(intel[fmt].main_topics, 4) \o trends[fmt]

\* a slip: the first non-empty candidate is taken without the freshness filter
first_nonempty(topics, used_info) ==
  LET ok == {k \in 1..Len(topics) : topics[k] # <<>>}
  IN IF ok = {} THEN <<>> ELSE topics[CHOOSE k \in ok : \A j \in ok : k <= j]

\* the inner loop of _pick_fresh_topic: the first non-empty fresh candidate,
\* <<>> when there is none
first_fresh(topics, used_info) ==
  LET ok == {k \in 1..Len(topics) :
               topics[k] # <<>> /\ _topic_is_fresh(topics[k], used_info)}
  IN IF ok = {} THEN <<>> ELSE topics[CHOOSE k \in ok : \A j \in ok : k <= j]

\* sorted_formats: without viral_angles every score is random, so the formats
\* can come in any order
sorted_formats ==
  {s \in [1..Len(ALL_FORMATS) -> Range(ALL_FORMATS)] : Range(s) = Range(ALL_FORMATS)}

\* _pick_fresh_topic: (topic, format_key) of the first format, in ranking
\* order, that has a fresh candidate; (None, None) is topic <<>>
_pick_fresh_topic(trends, intel, used_info) ==
  {LET hits == {k \in 1..Len(s) :
                  first_fresh(candidates(trends, intel, s[k]), used_info) # <<>>}
       k1 == CHOOSE k \in hits : \A j \in hits : k <= j
   IN IF hits = {} THEN [topic |-> <<>>, format_key |-> "None"]
      ELSE [topic |-> first_fresh(candidates(trends, intel, s[k1]), used_info),
            format_key |-> s[k1]] : s \in sorted_formats}

\* [t for v in trends.values() for t in v if t]; get_trending_topics fills the
\* dict in the order of the formats
all_topics(trends) ==
  LET flat == trends[ALL_FORMATS[1]] \o trends[ALL_FORMATS[2]] \o trends[ALL_FORMATS[3]]
  IN SelectRows(flat, LAMBDA t : t # <<>>)

\* run_pipeline, topic selection without manual idea: the fresh pick, else
\* all_topics[0]; manual_idea <<>> is None
select_topic(trends, intel, used_info) ==
  {IF p.topic # <<>>
   THEN [manual_idea |-> p.topic, fallback |-> FALSE]
   ELSE [manual_idea |-> IF all_topics(trends) # <<>> THEN all_topics(trends)[1] ELSE <<>>,
         fallback |-> TRUE] : p \in _pick_fresh_topic(trends, intel, used_info)}

(***************************************************************************)
(* analytics.py: update_performance, statement by statement                *)
(***************************************************************************)
\* the connections that run update_performance at the same time
Writers == {"w1", "w2"}

\* a connection outside update_performance
Idle == [pc |-> "idle", run_id |-> 0, key |-> 0, row |-> <<>>,
         hourly |-> <<>>, format |-> <<>>]

\* _recalculate_aggregates: range(24) restricted to the hours at which the
\* records of the specifications are posted, then the three formats
RecalcKeys ==
  [k \in 1..2 |-> [hour |-> <<19, 20>>[k], format |-> ""]]
  \o [k \in 1..Len(ALL_FORMATS) |-> [hour |-> -1, format |-> ALL_FORMATS[k]]]

\* a table after the rows of a transaction have been written over it
Overwrite(table, rows) ==
  [k \in (DOMAIN table) \cup (DOMAIN rows) |->
     IF k \in DOMAIN rows THEN rows[k] ELSE table[k]]

\* the rows the SELECT of _recalculate_aggregates counts for a key
KeyRows(vs, key) ==
  IF key.format # "" THEN FormatRows(vs, key.format) ELSE HourRows(vs, key.hour)

\* the row _recalculate_aggregates computes for a key: every value it can have
KeyRow(vs, key) ==
  IF key.format # ""
  THEN {FormatRow(vs, key.format, topics) : topics \in best_topics(vs, key.format)}
  ELSE {Aggregate(HourRows(vs, key.hour))}

\* the state of a connection once it is done with key number k
AfterKey(wr, k) ==
  IF k < Len(RecalcKeys)
  THEN [wr EXCEPT !.pc = "select", !.key = k + 1, !.row = <<>>]
  ELSE [wr EXCEPT !.pc = "commit", !.row = <<>>]

(***************************************************************************)
(* stats_fetcher.py                                                        *)
(***************************************************************************)
\* what fetch_stats leaves in yt_stats / tt_stats: {} after an exception or an
\* empty answer, else the counts
NoStats == [ok |-> FALSE, views |-> 0, likes |-> 0, comments |-> 0, shares |-> 0]

Stats(views, likes, comments, shares) ==
  [ok |-> TRUE, views |-> views, likes |-> likes, comments |-> comments,
   shares |-> shares]

\* SELECT run_id, youtube_id, tiktok_id, views, ... WHERE created_at >= cutoff
\* AND (youtube_id != '' OR tiktok_id != '') ORDER BY created_at DESC; [] when
\* the query fails
get_videos_for_stats_fetch(vs, now, max_age_days) ==
  LET cutoff == Timestamp(now) - max_age_days * 24 * 60
      S == {i \in 1..Len(vs) : /\ vs[i].created_at >= cutoff
                               /\ (vs[i].youtube_id # "" \/ vs[i].tiktok_id # "")}
  IN {[k \in 1..Len(s) |-> vs[s[k]]] :
        s \in OrderByDescLimit(S, LAMBDA x, y : vs[x].created_at <= vs[y].created_at,
                               Cardinality(S))}

\* merged: the maximum across the platforms, shares from TikTok only
merged_stats(yt_stats, tt_stats) ==
  [views    |-> Max(yt_stats.views, tt_stats.views),
   likes    |-> Max(yt_stats.likes, tt_stats.likes),
   comments |-> Max(yt_stats.comments, tt_stats.comments),
   shares   |-> tt_stats.shares]

\* if merged["views"] > v.get("views", 0) or updated == 0
should_update(merged_views, stored_views, updated) ==
  merged_views > stored_views \/ updated = 0

\* the loop of fetch_and_update_all over the rest of the batch: every store
\* it can leave, with the number of records updated
RECURSIVE fetch_loop(_, _, _, _)
fetch_loop(st, batch, fetched, updated) ==
  IF batch = <<>> THEN {[st EXCEPT !.updated = updated]}
  ELSE LET v  == Head(batch)
           yt == IF v.youtube_id # "" THEN fetched[v.run_id].yt ELSE NoStats
           tt == IF v.tiktok_id # "" THEN fetched[v.run_id].tt ELSE NoStats
           m  == merged_stats(yt, tt)
           vs == update_videos(st.videos, v.run_id, m.views, m.likes, m.comments,
                               m.shares)
       IN IF ~yt.ok /\ ~tt.ok
          THEN fetch_loop(st, Tail(batch), fetched, updated)
          ELSE IF should_update(m.views, v.views, updated)
          THEN UNION {fetch_loop([videos |-> vs,
                                  hourly |-> recalculate_hourly(vs, st.hourly),
                                  format |-> fp, updated |-> updated],
                                 Tail(batch), fetched, updated + 1) :
                        fp \in recalculate_format(vs, st.format)}
          ELSE fetch_loop(st, Tail(batch), fetched, updated)

\* fetch_and_update_all: every store it can leave for the statistics fetched
fetch_and_update_all(fetched) ==
  UNION {fetch_loop([videos |-> videos, hourly |-> hourly_performance,
                     format |-> format_performance, updated |-> 0],
                    batch, fetched, 0) :
           batch \in IF db_available
                     THEN get_videos_for_stats_fetch(videos, clock, 30)
                     ELSE {<<>>}}

(***************************************************************************)
(* Operations                                                              *)
(***************************************************************************)
\* the clock moves forward to c
Tick(c) ==
  /\ Timestamp(c) > Timestamp(clock)
  /\ clock' = c
  /\ ret' = [op |-> "tick"]
  /\ UNCHANGED <<proc_vars, store_vars, sched_vars, settings>>

LogVideo(run_id, script_data) ==
  /\ videos' = log_video(videos, run_id, script_data, clock)
  /\ ret' = [op |-> "log_video", run_id |-> run_id, script_data |-> script_data]
  /\ UNCHANGED <<proc_vars, hourly_performance, format_performance, clock, sched_vars, settings>>

\* update_performance: the UPDATE, then _recalculate_aggregates
UpdatePerformance(run_id, m) ==
  /\ videos' = update_videos(videos, run_id, m.views, m.likes, m.comments, m.shares)
  /\ hourly_performance' = recalculate_hourly(videos', hourly_performance)
  /\ format_performance' \in recalculate_format(videos', format_performance)
  /\ ret' = [op |-> "update_performance"]
  /\ UNCHANGED <<proc_vars, clock, sched_vars, settings>>

SavePlatformIds(run_id, youtube_id, tiktok_id) ==
  /\ videos' = save_platform_ids(videos, run_id, youtube_id, tiktok_id)
  /\ ret' = [op |-> "save_platform_ids", run_id |-> run_id,
             youtube_id |-> youtube_id, tiktok_id |-> tiktok_id]
  /\ UNCHANGED <<proc_vars, hourly_performance, format_performance, clock, sched_vars, settings>>

GetViralCandidates ==
  /\ \E val \in get_viral_candidates(videos) :
       ret' = [op |-> "get_viral_candidates", val |-> val]
  /\ UNCHANGED <<proc_vars, store_vars, clock, sched_vars, settings>>

GetBestHoursForDay(day_of_week, n) ==
  /\ \E val \in get_best_hours_for_day(videos, hourly_performance, day_of_week, n) :
       ret' = [op |-> "get_best_hours_for_day", day_of_week |-> day_of_week, n |-> n,
               val |-> val]
  /\ UNCHANGED <<proc_vars, store_vars, clock, sched_vars, settings>>

GetHourConfidence(day_of_week) ==
  /\ ret' = [op |-> "get_hour_confidence", day_of_week |-> day_of_week,
             val |-> get_hour_confidence(videos, day_of_week)]
  /\ UNCHANGED <<proc_vars, store_vars, clock, sched_vars, settings>>

GetBestPostHour ==
  /\ \E val \in get_best_post_hour(hourly_performance, clock) :
       ret' = [op |-> "get_best_post_hour", val |-> val]
  /\ UNCHANGED <<proc_vars, store_vars, clock, sched_vars, settings>>

\* run_pipeline asks get_all_used_topics and filters a candidate with it
TopicIsFresh(candidate) ==
  /\ \E used_info \in get_all_used_topics(videos) :
       ret' = [op |-> "_topic_is_fresh", candidate |-> candidate,
               used_info |-> used_info, val |-> _topic_is_fresh(candidate, used_info)]
  /\ UNCHANGED <<proc_vars, store_vars, clock, sched_vars, settings>>

\* run_pipeline(manual_idea=None, trend_data=None) up to STEP 1, after a
\* scrape that returned trends
SelectTopic(trends, intel) ==
  /\ \E used_info \in (IF db_available THEN get_all_used_topics(videos)
                       ELSE {[used |-> <<>>, pumped |-> <<>>]}) :
     \E o \in select_topic(trends, intel, used_info) :
       ret' = [op |-> "run_pipeline_topic", trends |-> trends, used_info |-> used_info,
               manual_idea |-> o.manual_idea, fallback |-> o.fallback]
  /\ UNCHANGED <<proc_vars, store_vars, clock, sched_vars, settings>>

\* _pick_fresh_topic(trends, used_info) with the history of the store
PickFreshTopic(trends, intel) ==
  /\ \E used_info \in get_all_used_topics(videos) :
     \E p \in _pick_fresh_topic(trends, intel, used_info) :
       ret' = [op |-> "_pick_fresh_topic", trends |-> trends, intel |-> intel,
               used_info |-> used_info, topic |-> p.topic, format_key |-> p.format_key]
  /\ UNCHANGED <<proc_vars, store_vars, clock, sched_vars, settings>>

\* update_performance, first transaction: UPDATE videos ... ; conn.commit().
\* The statement waits while another connection holds the write lock.
WriterUpdate(w, run_id, m) ==
  /\ writer[w].pc = "idle"
  /\ write_lock = "none"
  /\ HasRun(videos, run_id)
  /\ \A o \in Writers \ {w} : writer[o].pc = "idle" \/ writer[o].run_id # run_id
  /\ videos' = update_videos(videos, run_id, m.views, m.likes, m.comments, m.shares)
  /\ writer' = [writer EXCEPT ![w] = [Idle EXCEPT !.pc = "select", !.run_id = run_id,
                                                  !.key = 1]]
  /\ ret' = [op |-> "update_videos", writer |-> w, run_id |-> run_id]
  /\ UNCHANGED <<db_available, thread_pc, run_now, next_run, write_lock,
                 hourly_performance, format_performance, clock, sched_vars, settings>>

\* _recalculate_aggregates, the SELECT of the next hour or format: it reads
\* what is committed; with no row counted the loop goes on
WriterSelect(w) ==
  /\ writer[w].pc = "select"
  /\ LET key == RecalcKeys[writer[w].key]
     IN IF Len(KeyRows(videos, key)) > 0
        THEN \E row \in KeyRow(videos, key) :
               writer' = [writer EXCEPT ![w].pc = "insert", ![w].row = row]
        ELSE writer' = [writer EXCEPT ![w] = AfterKey(writer[w], writer[w].key)]
  /\ ret' = [op |-> "select_aggregate", writer |-> w]
  /\ UNCHANGED <<db_available, thread_pc, run_now, next_run, write_lock, store_vars,
                 clock, sched_vars, settings>>

\* _recalculate_aggregates, INSERT OR REPLACE of the row just computed: the
\* first one opens the transaction and takes the write lock, and waits while
\* another connection holds it
WriterInsert(w) ==
  /\ writer[w].pc = "insert"
  /\ write_lock \in {"none", w}
  /\ write_lock' = w
  /\ LET key == RecalcKeys[writer[w].key]
         wr  == IF key.format # ""
                THEN [writer[w] EXCEPT !.format =
                        Overwrite(writer[w].format,
                                  [k \in {key.format} |-> writer[w].row])]
                ELSE [writer[w] EXCEPT !.hourly =
                        Overwrite(writer[w].hourly,
                                  [k \in {key.hour} |-> writer[w].row])]
     IN writer' = [writer EXCEPT ![w] = AfterKey(wr, writer[w].key)]
  /\ ret' = [op |-> "insert_aggregate", writer |-> w]
  /\ UNCHANGED <<db_available, thread_pc, run_now, next_run, store_vars, clock,
                 sched_vars, settings>>

\* _recalculate_aggregates, conn.commit(): the rows written become visible
\* together and the write lock is released; update_performance returns
WriterCommit(w) ==
  /\ writer[w].pc = "commit"
  /\ hourly_performance' = Overwrite(hourly_performance, writer[w].hourly)
  /\ format_performance' = Overwrite(format_performance, writer[w].format)
  /\ write_lock' = IF write_lock = w THEN "none" ELSE write_lock
  /\ writer' = [writer EXCEPT ![w] = Idle]
  /\ ret' = [op |-> "update_performance_returned", writer |-> w]
  /\ UNCHANGED <<db_available, thread_pc, run_now, next_run, videos, clock,
                 sched_vars, settings>>

\* fetch_and_update_all() with the statistics the platforms answer
FetchAndUpdateAll(fetched) ==
  /\ \E st \in fetch_and_update_all(fetched) :
       /\ videos' = st.videos
       /\ hourly_performance' = st.hourly
       /\ format_performance' = st.format
       /\ ret' = [op |-> "fetch_and_update_all", fetched |-> fetched,
                  updated |-> st.updated]
  /\ UNCHANGED <<proc_vars, clock, sched_vars, settings>>

\* app.py post_settings writes settings.json
PostSettings(val) ==
  /\ settings' = [present |-> TRUE, max_videos_per_day |-> val]
  /\ ret' = [op |-> "post_settings"]
  /\ UNCHANGED <<proc_vars, store_vars, clock, sched_vars>>

ShouldRunNow ==
  /\ \E o \in should_run_now :
       /\ daily_run_count' = o.daily_run_count
       /\ today_schedule' = o.today_schedule
       /\ schedule_date' = o.schedule_date
       /\ ret' = [op |-> "should_run_now", ok |-> o.ok, reason |-> o.reason]
  /\ UNCHANGED <<proc_vars, store_vars, clock, settings, last_run_hour>>

\* run_once() as the scheduler calls it (force=False) when the gate refuses
RunOnceSkip ==
  /\ \E o \in should_run_now :
       /\ ~o.ok
       /\ daily_run_count' = o.daily_run_count
       /\ today_schedule' = o.today_schedule
       /\ schedule_date' = o.schedule_date
  /\ ret' = [op |-> "run_once", val |-> FALSE, ran |-> FALSE]
  /\ UNCHANGED <<proc_vars, store_vars, clock, settings, last_run_hour>>

\* run_once() when the gate lets it through and run_pipeline returns a result:
\* the pipeline has logged the video under run_id = int(time.time())
RunOnceSuccess(script_data) ==
  /\ \E o \in should_run_now :
       /\ o.ok
       /\ daily_run_count' = inc_daily_count(o.daily_run_count)
       /\ today_schedule' = o.today_schedule
       /\ schedule_date' = o.schedule_date
  /\ videos' = log_video(videos, Timestamp(clock), script_data, clock)
  /\ last_run_hour' = clock.hour
  /\ \E best \in viral_pick :
       ret' = [op |-> "run_once", val |-> TRUE, ran |-> TRUE, viral_topic |-> best.topic,
               best |-> best.run_id, topic |-> script_data.topic]
  /\ UNCHANGED <<proc_vars, hourly_performance, format_performance, clock, settings>>

\* run_once() when the gate lets it through and run_pipeline returns None or raises
RunOnceFailure ==
  /\ \E o \in should_run_now :
       /\ o.ok
       /\ daily_run_count' = o.daily_run_count
       /\ today_schedule' = o.today_schedule
       /\ schedule_date' = o.schedule_date
  /\ \E best \in viral_pick :
       ret' = [op |-> "run_once", val |-> FALSE, ran |-> TRUE, viral_topic |-> best.topic,
               best |-> best.run_id]
  /\ UNCHANGED <<proc_vars, store_vars, clock, settings, last_run_hour>>

\* build_daily_schedule(): what it computes and returns; it changes no state
BuildDailySchedule ==
  /\ \E learned \in learned_hours :
       \E chosen \in with_jitter(chosen_hours(learned, Weekday(clock),
                                              get_max_videos_per_day)) :
         ret' = [op |-> "build_daily_schedule", learned |-> learned,
                 tier |-> schedule_tier, val |-> chosen]
  /\ UNCHANGED <<proc_vars, store_vars, clock, settings, sched_vars>>

\* analytics.db stops or starts answering (locked, missing, unreadable)
StoreAvailability(up) ==
  /\ db_available # up
  /\ db_available' = up
  /\ ret' = [op |-> "store_availability"]
  /\ UNCHANGED <<txn_vars, thread_pc, run_now, next_run, store_vars, clock, settings, sched_vars>>

\* schedule.every(CHECK_INTERVAL_MIN).minutes
CHECK_INTERVAL_MIN == 5

\* start_scheduler up to the registration of the job: today's schedule is
\* built and run_once is due every CHECK_INTERVAL_MIN minutes from now on
StartScheduler ==
  /\ thread_pc.main = "boot"
  /\ today_schedule' \in get_today_schedule
  /\ schedule_date' = Today(clock)
  /\ next_run' = Timestamp(clock) + CHECK_INTERVAL_MIN
  /\ thread_pc' = [thread_pc EXCEPT !.main = "check"]
  /\ ret' = [op |-> "start_scheduler"]
  /\ UNCHANGED <<txn_vars, db_available, run_now, store_vars, clock, settings, last_run_hour,
                 daily_run_count>>

\* start_scheduler, "run immediately": if the current hour is a slot and
\* should_run_now agrees, run_once is started in a thread of its own
StartupCheck ==
  /\ thread_pc.main = "check"
  /\ IF is_active_hour /\ clock.hour \in schedule_hours(today_schedule)
     THEN \E o \in should_run_now :
            /\ daily_run_count' = o.daily_run_count
            /\ today_schedule' = o.today_schedule
            /\ schedule_date' = o.schedule_date
            /\ thread_pc' = [main |-> "loop",
                             startup |-> IF o.ok THEN "spawned" ELSE "none"]
     ELSE /\ thread_pc' = [thread_pc EXCEPT !.main = "loop"]
          /\ UNCHANGED <<daily_run_count, today_schedule, schedule_date>>
  /\ ret' = [op |-> "startup_check"]
  /\ UNCHANGED <<txn_vars, db_available, run_now, next_run, store_vars, clock, settings,
                 last_run_hour>>

\* thread t may enter run_once: the start-up thread once it is started, the
\* main loop when schedule.run_pending() finds the job due
Due(t) ==
  IF t = "startup" THEN thread_pc.startup = "spawned"
  ELSE thread_pc.main = "loop" /\ next_run <= Timestamp(clock)

\* run_once() in thread t up to the call of run_pipeline: the gate is asked,
\* and either the call returns False or the pipeline starts
RunOnceBegin(t) ==
  /\ Due(t)
  /\ \E o \in should_run_now :
       /\ daily_run_count' = o.daily_run_count
       /\ today_schedule' = o.today_schedule
       /\ schedule_date' = o.schedule_date
       /\ thread_pc' = [thread_pc EXCEPT ![t] =
                          IF o.ok THEN "running"
                          ELSE IF t = "startup" THEN "done" ELSE "loop"]
       /\ run_now' = IF o.ok THEN [run_now EXCEPT ![t] = clock] ELSE run_now
       /\ next_run' = IF t = "main" /\ ~o.ok
                      THEN Timestamp(clock) + CHECK_INTERVAL_MIN ELSE next_run
       /\ ret' = [op |-> "run_once_begin", thread |-> t, ok |-> o.ok]
  /\ UNCHANGED <<txn_vars, db_available, store_vars, clock, settings, last_run_hour>>

\* run_once() in thread t from the return of run_pipeline: a result means the
\* video was logged under run_id = int(time.time()) of the pipeline's start
RunOnceEnd(t, result, script_data) ==
  /\ thread_pc[t] = "running"
  /\ IF result
     THEN /\ videos' = log_video(videos, Timestamp(run_now[t]), script_data, clock)
          /\ last_run_hour' = run_now[t].hour
          /\ daily_run_count' = inc_daily_count(get_daily_count)
     ELSE UNCHANGED <<videos, last_run_hour, daily_run_count>>
  /\ thread_pc' = [thread_pc EXCEPT ![t] = IF t = "startup" THEN "done" ELSE "loop"]
  /\ next_run' = IF t = "main" THEN Timestamp(clock) + CHECK_INTERVAL_MIN ELSE next_run
  /\ ret' = [op |-> "run_once_end", thread |-> t, result |-> result,
             hour |-> run_now[t].hour]
  /\ UNCHANGED <<txn_vars, db_available, run_now, hourly_performance, format_performance, clock,
                 settings, today_schedule, schedule_date>>

(***************************************************************************)
(* Specifications                                                          *)
(***************************************************************************)
\* _daily_run_count["date"] = "" and _schedule_date = "": no date yet
NoDate == -1

Metrics(views, likes, comments, shares) ==
  [views |-> views, likes |-> likes, comments |-> comments, shares |-> shares]

Script(format, topic, hook_text) ==
  [format |-> format, topic |-> topic, hook_text |-> hook_text]

At(day, hour, minute) == [day |-> day, hour |-> hour, minute |-> minute]

\* the state of a fresh process over an empty database at time c
InitAt(c, st) ==
  /\ videos = <<>>
  /\ hourly_performance = <<>>
  /\ format_performance = <<>>
  /\ clock = c
  /\ settings = st
  /\ last_run_hour = -1
  /\ daily_run_count = [date |-> NoDate, count |-> 0]
  /\ today_schedule = <<>>
  /\ schedule_date = NoDate
  /\ db_available = TRUE
  /\ thread_pc = [main |-> "boot", startup |-> "none"]
  /\ run_now = [main |-> c, startup |-> c]
  /\ next_run = -1
  /\ writer = [w \in Writers |-> Idle]
  /\ write_lock = "none"
  /\ ret = [op |-> "init"]

NoSettings == [present |-> FALSE, max_videos_per_day |-> _DEFAULT_MAX_VIDEOS]

Init == InitAt(At(0, 19, 0), NoSettings)

\* log_video for a run that is not in the table yet, while the table has room
LogNewVideo(max, scripts) ==
  /\ Len(videos) < max
  /\ \E sd \in scripts : LogVideo(Len(videos) + 1, sd)

\* ---- the store: the three writes ----
MaxVideos == 1

StoreClock == {At(0, 20, 0)}

StoreScripts ==
  {Script("story_lesson", <<"X">>, "h1"), Script("scary_truth", <<"Y">>, "h2")}

StoreMetrics ==
  {Metrics(0, 1, 0, 1), Metrics(9999, 30, 2, 1), Metrics(10000, 50, 0, 0)}

Next ==
  \/ \E c \in StoreClock : Tick(c)
  \/ \E run_id \in 1..Min(MaxVideos, Len(videos) + 1), sd \in StoreScripts :
       LogVideo(run_id, sd)
  \/ \E run_id \in 1..MaxVideos, m \in StoreMetrics : UpdatePerformance(run_id, m)
  \/ \E run_id \in 1..MaxVideos, ids \in {<<"yt1", None>>, <<None, "tt1">>} :
       SavePlatformIds(run_id, ids[1], ids[2])

Spec == Init /\ [][Next]_vars

\* ---- the three writes on several records ----
MaxFrameVideos == 2

FrameMetrics == {Metrics(10000, 50, 0, 0)}

NextFrame ==
  \/ \E c \in StoreClock : Tick(c)
  \/ \E run_id \in 1..Min(MaxFrameVideos, Len(videos) + 1), sd \in StoreScripts :
       LogVideo(run_id, sd)
  \/ \E run_id \in 1..MaxFrameVideos, m \in FrameMetrics : UpdatePerformance(run_id, m)
  \/ \E run_id \in 1..MaxFrameVideos : SavePlatformIds(run_id, "yt1", "tt1")

SpecFrame == Init /\ [][NextFrame]_vars

\* ---- viral follow-up candidates ----
MaxViralVideos == 2

ViralClock == {At(0, 20, 0)}

ViralScripts ==
  {Script("story_lesson", <<"X">>, "h1"), Script("story_lesson", <<"Y">>, "h2"),
   Script("story_lesson", <<>>, "")}

ViralMetrics == {Metrics(0, 0, 0, 0), Metrics(10000, 50, 0, 0), Metrics(12000, 0, 60, 0)}

NextViral ==
  \/ \E c \in ViralClock : Tick(c)
  \/ LogNewVideo(MaxViralVideos, ViralScripts)
  \/ \E run_id \in 1..MaxViralVideos, m \in ViralMetrics : UpdatePerformance(run_id, m)
  \/ GetViralCandidates

SpecViral == Init /\ [][NextViral]_vars

\* ---- learned hours of a weekday ----
MaxHourVideos == 3

HourClock == {At(0, 20, 0), At(1, 20, 0)}

HourScripts == {Script("story_lesson", <<"X">>, "h1")}

HourMetrics == {Metrics(0, 0, 0, 0), Metrics(100, 1, 0, 0), Metrics(100, 1, 1, 0)}

HourDays == {0, 1}

HourLimits == {1, 2}

NextHours ==
  \/ \E c \in HourClock : Tick(c)
  \/ LogNewVideo(MaxHourVideos, HourScripts)
  \/ \E run_id \in 1..MaxHourVideos, m \in HourMetrics : UpdatePerformance(run_id, m)
  \/ \E d \in HourDays, n \in HourLimits : GetBestHoursForDay(d, n)

SpecHours == Init /\ [][NextHours]_vars

\* ---- best hour overall ----
MaxBestVideos == 5

BestClock == {At(0, 20, 0)}

NextBest ==
  \/ \E c \in BestClock : Tick(c)
  \/ LogNewVideo(MaxBestVideos, HourScripts)
  \/ \E run_id \in 1..MaxBestVideos, m \in HourMetrics : UpdatePerformance(run_id, m)
  \/ GetBestPostHour

SpecBest == Init /\ [][NextBest]_vars

\* ---- confidence tier ----
MaxConfVideos == 6

ConfClock == {At(1, 19, 0)}

ConfMetrics == {Metrics(0, 0, 0, 0), Metrics(100, 1, 0, 0)}

ConfDays == {0, 1}

NextConf ==
  \/ \E c \in ConfClock : Tick(c)
  \/ LogNewVideo(MaxConfVideos, HourScripts)
  \/ \E run_id \in 1..MaxConfVideos, m \in ConfMetrics : UpdatePerformance(run_id, m)
  \/ \E d \in ConfDays : GetHourConfidence(d)

SpecConf == Init /\ [][NextConf]_vars

\* ---- topic freshness ----
MaxFreshVideos == 2

FreshTopics == KnownTopics

FreshScripts == {Script("story_lesson", t, "h1") : t \in FreshTopics}

FreshMetrics == {Metrics(0, 0, 0, 0), Metrics(10000, 50, 0, 0)}

NextFresh ==
  \/ \E c \in {At(0, 20, 0)} : Tick(c)
  \/ LogNewVideo(MaxFreshVideos, FreshScripts)
  \/ \E run_id \in 1..MaxFreshVideos, m \in FreshMetrics : UpdatePerformance(run_id, m)
  \/ \E candidate \in FreshTopics : TopicIsFresh(candidate)

SpecFresh == Init /\ [][NextFresh]_vars

\* ---- topic selection of a run ----
MaxPickVideos == 2

PickHistory == {TraderLostEverything, WhyYouFail}

PickScripts == {Script("story_lesson", t, "h1") : t \in PickHistory}

\* the runs whose statistics are fetched
PickPumped == {1}

PickLists == {<<>>, <<WhyYouFail, TraderPart2>>}

PickTrends ==
  {[f \in Range(ALL_FORMATS) |->
      IF f = "story_lesson" THEN l
      ELSE IF f = "hidden_psychology" THEN h ELSE <<>>] :
     l \in PickLists, h \in {<<>>, <<TraderLostItAll>>}}

PickIntel ==
  {[f \in Range(ALL_FORMATS) |-> NoIntel],
   [f \in Range(ALL_FORMATS) |->
      IF f = "story_lesson"
      THEN [best_topic_right_now |-> TheTraderLostEverything, main_topics |-> <<>>]
      ELSE NoIntel]}

NextPick ==
  \/ \E c \in {At(0, 20, 0)} : Tick(c)
  \/ LogNewVideo(MaxPickVideos, PickScripts)
  \/ \E run_id \in PickPumped, m \in FreshMetrics : UpdatePerformance(run_id, m)
  \/ \E trends \in PickTrends, intel \in PickIntel : SelectTopic(trends, intel)
  \/ \E trends \in PickTrends, intel \in PickIntel : PickFreshTopic(trends, intel)

SpecPick == Init /\ [][NextPick]_vars

\* ---- update_performance on two connections ----
MaxRaceVideos == 2

RaceMetrics == {Metrics(100, 1, 0, 0), Metrics(300, 3, 0, 0)}

NextRace ==
  \/ \E c \in {At(0, 20, 0)} : Tick(c)
  \/ write_lock = "none" /\ LogNewVideo(MaxRaceVideos, HourScripts)
  \/ \E w \in Writers, run_id \in 1..MaxRaceVideos, m \in RaceMetrics :
       WriterUpdate(w, run_id, m)
  \/ \E w \in Writers : WriterSelect(w)
  \/ \E w \in Writers : WriterInsert(w)
  \/ \E w \in Writers : WriterCommit(w)

SpecRace == Init /\ [][NextRace]_vars

\* ---- the statistics fetcher ----
MaxFetchVideos == 2

FetchIds == {<<"yt1", None>>, <<"yt1", "tt1">>}

\* what the two platforms answer for one record
FetchAnswers ==
  {[yt |-> NoStats, tt |-> NoStats],
   [yt |-> Stats(50, 1, 0, 0), tt |-> NoStats],
   [yt |-> Stats(200, 2, 0, 0), tt |-> NoStats],
   [yt |-> NoStats, tt |-> Stats(50, 1, 0, 1)],
   [yt |-> Stats(200, 2, 0, 0), tt |-> Stats(50, 1, 0, 1)]}

NextFetch ==
  \/ \E c \in {At(0, 20, 0)} : Tick(c)
  \/ LogNewVideo(MaxFetchVideos, HourScripts)
  \/ \E run_id \in 1..MaxFetchVideos, ids \in FetchIds :
       HasRun(videos, run_id) /\ SavePlatformIds(run_id, ids[1], ids[2])
  \/ \E fetched \in [1..MaxFetchVideos -> FetchAnswers] : FetchAndUpdateAll(fetched)

SpecFetch == Init /\ [][NextFetch]_vars

\* ---- the run gate ----
MaxDay == 1

SchedHours == {5, 7, 8}

SchedMinutes == {5}

SchedClock == {At(d, h, m) : d \in 0..MaxDay, h \in SchedHours, m \in SchedMinutes}

SchedSettings == {[present |-> TRUE, max_videos_per_day |-> n] : n \in {1, 2}}

MaxSchedVideos == 2

InitSched == \E st \in SchedSettings : InitAt(At(0, 5, 0), st)

NextSched ==
  \/ \E c \in SchedClock : Tick(c)
  \/ LogNewVideo(MaxSchedVideos, HourScripts)
  \/ \E n \in {1, 2} : PostSettings(n)
  \/ ShouldRunNow
  \/ RunOnceSkip
  \/ \E sd \in HourScripts : Len(videos) < MaxSchedVideos /\ RunOnceSuccess(sd)
  \/ RunOnceFailure

SpecSched == InitSched /\ [][NextSched]_vars

\* ---- viral follow-up runs ----
MaxFollowVideos == 2

FollowClock == {At(0, h, 5) : h \in {7, 8}}

FollowScripts == {Script("story_lesson", t, "h1") : t \in {<<"X">>, <<"Y">>}}

FollowMetrics == {Metrics(10000, 50, 0, 0), Metrics(20000, 50, 0, 0)}

\* the runs whose statistics are fetched
FollowPumped == {1, 2}

InitFollow == InitAt(At(0, 5, 0), [present |-> TRUE, max_videos_per_day |-> 2])

NextFollow ==
  \/ \E c \in FollowClock : Tick(c)
  \/ LogNewVideo(MaxFollowVideos, FollowScripts)
  \/ \E run_id \in FollowPumped, m \in FollowMetrics :
       HasRun(videos, run_id) /\ UpdatePerformance(run_id, m)
  \/ RunOnceSkip
  \/ \E sd \in FollowScripts : Len(videos) < MaxFollowVideos /\ RunOnceSuccess(sd)
  \/ RunOnceFailure

SpecFollow == InitFollow /\ [][NextFollow]_vars

\* ---- building the day's schedule ----
MaxBuildVideos == 2

BuildDays == 0..6

BuildClock == {At(d, 20, 0) : d \in BuildDays}

BuildSettings ==
  {NoSettings} \cup {[present |-> TRUE, max_videos_per_day |-> n] : n \in {1, 2}}

BuildMetrics == {Metrics(0, 0, 0, 0), Metrics(100, 1, 0, 0)}

InitBuild == \E d \in BuildDays, st \in BuildSettings : InitAt(At(d, 5, 0), st)

NextBuild ==
  \/ \E c \in BuildClock : c.day = clock.day /\ Tick(c)
  \/ LogNewVideo(MaxBuildVideos, HourScripts)
  \/ \E run_id \in 1..MaxBuildVideos, m \in BuildMetrics : UpdatePerformance(run_id, m)
  \/ BuildDailySchedule

SpecBuild == InitBuild /\ [][NextBuild]_vars

\* ---- the scheduler while analytics.db does not answer ----
MaxDownVideos == 2

DownClock == {At(0, 7, 5), At(1, 7, 5)}

InitDown == \E st \in SchedSettings : InitAt(At(0, 7, 0), st)

NextDown ==
  \/ \E c \in DownClock : Tick(c)
  \/ db_available /\ LogNewVideo(MaxDownVideos, HourScripts)
  \/ \E run_id \in 1..MaxDownVideos, m \in BuildMetrics :
       db_available /\ UpdatePerformance(run_id, m)
  \/ \E up \in BOOLEAN : StoreAvailability(up)
  \/ BuildDailySchedule
  \/ ShouldRunNow

SpecDown == InitDown /\ [][NextDown]_vars

\* ---- the scheduler process and its threads ----
MaxThreadVideos == 2

ThreadClock == {At(0, h, m) : h \in {7, 8}, m \in {5, 10}}

ThreadSettings == {NoSettings, [present |-> TRUE, max_videos_per_day |-> 1]}

InitThreads == \E st \in ThreadSettings : InitAt(At(0, 7, 0), st)

NextThreads ==
  \/ \E c \in ThreadClock : thread_pc.main # "check" /\ Tick(c)
  \/ StartScheduler
  \/ StartupCheck
  \/ \E t \in {"main", "startup"} : RunOnceBegin(t)
  \/ \E t \in {"main", "startup"}, result \in BOOLEAN, sd \in HourScripts :
       (result => Len(videos) < MaxThreadVideos) /\ RunOnceEnd(t, result, sd)

SpecThreads == InitThreads /\ [][NextThreads]_vars

(***************************************************************************)
(* Properties                                                              *)
(***************************************************************************)
Rows == 1..Len(videos)

\* C1: every record's stored engagement_rate is (likes+comments+shares) /
\* max(views,1) * 100 of its stored counts, in every state log_video,
\* update_performance and save_platform_ids can reach (0 for a fresh record).
C1_EngagementRateOfStoredCounts ==
  \A i \in Rows :
    LET r == videos[i]
    IN /\ r.engagement_rate[1] * Max(r.views, 1)
            = (r.likes + r.comments + r.shares) * 100 * r.engagement_rate[2]
       /\ (r.views = 0 /\ r.likes = 0 /\ r.comments = 0 /\ r.shares = 0
             => r.engagement_rate = <<0, 1>>)

\* an update_performance call has stored counts without views (the max(views,1)
\* case) whose rate is not 0, on a record that carries a platform id
C1_Witness ==
  /\ ret.op = "update_performance"
  /\ \E i \in Rows : /\ videos[i].views = 0
                      /\ videos[i].engagement_rate[1] > 0
                      /\ videos[i].youtube_id # ""

\* C2: a record is pumped if and only if its stored views are >= 10000.
C2_PumpedIffThreshold ==
  \A i \in Rows : (videos[i].pumped = 1) <=> (videos[i].views >= 10000)

\* an update has taken a record's views back below the threshold: the record
\* is not pumped, and its format's aggregate row still lists its topic among
\* the pumped ones
C2_Witness ==
  /\ ret.op = "update_performance"
  /\ \E i \in Rows :
       /\ videos[i].views < PUMP_THRESHOLD
       /\ videos[i].pumped = 0
       /\ videos[i].format \in DOMAIN format_performance
       /\ videos[i].topic \in Range(format_performance[videos[i].format].best_topics)

\* C3: log_video with a run_id the store already holds changes no record and
\* leaves exactly one record with that run_id.
C3_LogVideoExistingIsNoOp ==
  [][(ret'.op = "log_video" /\ HasRun(videos, ret'.run_id))
       => /\ videos' = videos
          /\ Cardinality({i \in 1..Len(videos') : videos'[i].run_id = ret'.run_id}) = 1]_vars

\* log_video was called for a run the store holds with another topic and hook
C3_Witness ==
  /\ ret.op = "log_video"
  /\ \E i \in Rows :
       /\ videos[i].run_id = ret.run_id
       /\ videos[i].topic # ret.script_data.topic
       /\ videos[i].hook_text # ret.script_data.hook_text
       /\ videos[i].views > 0

\* C4: whenever the store holds at least max_videos_per_day records created
\* since local midnight today, should_run_now returns False (the claim adds: with
\* the cap-reached reason), whatever the hour, the last-run hour and the schedule,
\* and whether or not the records were there when the daily counter was set.
C4_CapReachedRefuses ==
  get_today_video_count(videos, clock) >= get_max_videos_per_day
    => \A o \in should_run_now : ~o.ok

\* C5: get_viral_candidates returns exactly the records that are pumped, have a
\* non-empty topic and have no other record with the same topic string and a
\* strictly later created_at, each once, ordered by views descending.
NoLaterSameTopic(i) ==
  ~\E j \in Rows :
     /\ j # i
     /\ videos[j].run_id # videos[i].run_id
     /\ videos[j].topic = videos[i].topic
     /\ videos[j].created_at > videos[i].created_at

ViralReference ==
  {i \in Rows : videos[i].pumped = 1 /\ videos[i].topic # <<>> /\ NoLaterSameTopic(i)}

C5_ViralCandidatesExact ==
  ret.op = "get_viral_candidates" =>
    /\ {ret.val[k].run_id : k \in 1..Len(ret.val)} = {videos[i].run_id : i \in ViralReference}
    /\ Len(ret.val) = Cardinality(ViralReference)
    /\ \A k \in 1..Len(ret.val) : \E i \in ViralReference :
         ret.val[k] = [run_id |-> videos[i].run_id, topic |-> videos[i].topic,
                       format |-> videos[i].format, views |-> videos[i].views,
                       hook_text |-> videos[i].hook_text]
    /\ \A k \in 1..(Len(ret.val) - 1) : ret.val[k].views >= ret.val[k + 1].views

\* the call returned a pumped record and left out another pumped record, one
\* that has a later record with its topic
C5_Witness ==
  /\ ret.op = "get_viral_candidates"
  /\ Len(ret.val) >= 1
  /\ \E i \in Rows : /\ videos[i].pumped = 1
                      /\ videos[i].topic # <<>>
                      /\ \A k \in 1..Len(ret.val) : ret.val[k].run_id # videos[i].run_id

\* the meaningful words two topics share
SharedWords(a, b) == Cardinality(_topic_words(a) \cap _topic_words(b))

Measured(hour) == {i \in Rows : videos[i].post_hour = hour /\ videos[i].views > 0}

MeasuredOn(day_of_week, hour) ==
  {i \in Measured(hour) : videos[i].post_day_of_week = day_of_week}

\* the total engagement of a set of records, as a pair <<numerator, denominator>>
RECURSIVE TotalEngagement(_)
TotalEngagement(S) ==
  IF S = {} THEN <<0, 1>>
  ELSE LET i == CHOOSE x \in S : TRUE
           e == videos[i].engagement_rate
           t == TotalEngagement(S \ {i})
       IN <<e[1] * t[2] + t[1] * e[2], e[2] * t[2]>>

\* the average engagement of the records S is at most that of the records T
AvgBelow(S, T) ==
  TotalEngagement(S)[1] * TotalEngagement(T)[2] * Cardinality(T)
    <= TotalEngagement(T)[1] * TotalEngagement(S)[2] * Cardinality(S)

\* val lists min(n, |Q|) distinct hours of Q, best average engagement first, and
\* no hour of Q left out has a better average than a listed one
RankedPrefix(val, Q, Group(_), n) ==
  /\ Len(val) = Min(n, Cardinality(Q))
  /\ Range(val) \subseteq Q
  /\ \A a, b \in 1..Len(val) : a < b => val[a] # val[b] /\ AvgBelow(Group(val[b]), Group(val[a]))
  /\ \A h \in Q \ Range(val) : \A a \in 1..Len(val) : AvgBelow(Group(h), Group(val[a]))

DayQualified(day_of_week) == {h \in 0..23 : Cardinality(MeasuredOn(day_of_week, h)) >= 2}

AnyDayQualified == {h \in 0..23 : Cardinality(Measured(h)) >= 3}

C8_HourConfidenceTier ==
  ret.op = "get_hour_confidence" =>
    LET day_videos == Cardinality({i \in Rows : videos[i].post_day_of_week = ret.day_of_week
                                                 /\ videos[i].views > 0})
        any_videos == Cardinality({i \in Rows : videos[i].views > 0})
    IN /\ ret.val.day_videos = day_videos
       /\ ret.val.any_videos = any_videos
       /\ ret.val.tier \in {"day-specific", "cross-day", "psychology"}
       /\ ret.val.tier = "day-specific" <=> day_videos >= 4
       /\ ret.val.tier = "cross-day" <=> (day_videos < 4 /\ any_videos >= 6)
       /\ (day_videos < 4 /\ any_videos < 6) => ret.val.tier = "psychology"

\* the call reported cross-day: 6 measured videos, fewer than 4 on the weekday
C8_Witness ==
  /\ ret.op = "get_hour_confidence"
  /\ ret.val.tier = "cross-day"
  /\ ret.val.day_videos >= 1

C10_RunOnlyWhenAllHold ==
  ret.op = "should_run_now" =>
    /\ ret.ok =>
         /\ 6 <= clock.hour /\ clock.hour < 23
         /\ clock.hour # last_run_hour
         /\ daily_run_count.date = Today(clock)
         /\ daily_run_count.count < get_max_videos_per_day
         /\ schedule_date = Today(clock)
         /\ \E k \in 1..Len(today_schedule) :
              today_schedule[k][1] = clock.hour /\ clock.minute >= today_schedule[k][2]
         /\ \A k \in 1..Len(today_schedule) :
              today_schedule[k][1] = clock.hour => clock.minute >= today_schedule[k][2]
    /\ ~ret.ok => ret.reason # ""

\* the gate said yes on the second day, after a run on the first
C10_Witness ==
  /\ ret.op = "should_run_now"
  /\ ret.ok
  /\ clock.day = 1
  /\ last_run_hour # -1

\* the records of a format that count for its aggregate row
MeasuredIn(fmt) == {i \in Rows : videos[i].format = fmt /\ videos[i].views > 0}

\* C11: after every completed update_performance call the aggregate tables are
\* the view of the video records: an hourly row exists exactly for the hours
\* that have a record with views > 0 and carries their count and averages, a
\* format row exists exactly for the formats that have such a record and
\* carries their count, their averages and the topics of the format's pumped
\* records, most-viewed first; no row survives for an hour or a format without
\* a record with views > 0.
C11_AggregatesAreView ==
  ret.op = "update_performance" =>
    /\ DOMAIN hourly_performance = {h \in 0..23 : Measured(h) # {}}
    /\ \A h \in DOMAIN hourly_performance :
         /\ hourly_performance[h].total_videos = Cardinality(Measured(h))
         /\ hourly_performance[h] = Aggregate(HourRows(videos, h))
    /\ DOMAIN format_performance = {f \in Range(ALL_FORMATS) : MeasuredIn(f) # {}}
    /\ \A f \in DOMAIN format_performance :
         /\ format_performance[f].total_videos = Cardinality(MeasuredIn(f))
         /\ format_performance[f].avg_views = Aggregate(FormatRows(videos, f)).avg_views
         /\ format_performance[f].avg_engagement
              = Aggregate(FormatRows(videos, f)).avg_engagement
         /\ format_performance[f].best_topics \in best_topics(videos, f)

\* C12: a save_platform_ids call that gives only one platform's identifier
\* leaves the other platform's stored identifier and URL as they were, and
\* stores the identifier given together with the URL of its platform.
C12_SavePlatformIdsMerges ==
  [][\A i \in Rows :
       (ret'.op = "save_platform_ids" /\ videos[i].run_id = ret'.run_id) =>
         /\ (ret'.youtube_id # None /\ ret'.tiktok_id = None) =>
              /\ videos'[i].tiktok_id = videos[i].tiktok_id
              /\ videos'[i].tiktok_url = videos[i].tiktok_url
              /\ videos'[i].youtube_id = ret'.youtube_id
              /\ videos'[i].youtube_url = youtube_url(ret'.youtube_id)
         /\ (ret'.tiktok_id # None /\ ret'.youtube_id = None) =>
              /\ videos'[i].youtube_id = videos[i].youtube_id
              /\ videos'[i].youtube_url = videos[i].youtube_url
              /\ videos'[i].tiktok_id = ret'.tiktok_id
              /\ videos'[i].tiktok_url = tiktok_url(ret'.tiktok_id)]_vars

\* the answers should_run_now can give in the current state
GateAnswers == {o.ok : o \in should_run_now}

\* C16: a change of max_videos_per_day made after today's schedule was built
\* does not alter what the scheduler does for the rest of the day: the slots
\* stay and should_run_now answers as it did before the change.
C16_SettingsChangeNotRetroactive ==
  [][(ret'.op = "post_settings" /\ schedule_date = Today(clock) /\ today_schedule # <<>>)
       => /\ today_schedule' = today_schedule
          /\ GateAnswers' = GateAnswers]_vars

\* C17: a should_run_now call that returns False leaves the last-run hour, the
\* daily counter and its date, the cached schedule and its date, and the store
\* as they were.
C17_RefusalHasNoSideEffects ==
  [][(ret'.op = "should_run_now" /\ ~ret'.ok)
       => UNCHANGED <<last_run_hour, daily_run_count, today_schedule, schedule_date,
                      store_vars>>]_vars

\* the hours inside the active window, in the order given
ActiveOnly(hours) ==
  SelectRows(hours, LAMBDA h : ACTIVE_HOURS_START <= h /\ h < ACTIVE_HOURS_END)

\* the first occurrence of each hour, in the order given
RECURSIVE FirstOccurrences(_)
FirstOccurrences(hours) ==
  IF hours = <<>> THEN <<>>
  ELSE LET rest == FirstOccurrences(SubSeq(hours, 1, Len(hours) - 1))
       IN IF hours[Len(hours)] \in Range(rest) THEN rest
          ELSE Append(rest, hours[Len(hours)])

\* the hours of a schedule
SlotHours(schedule) == {schedule[k][1] : k \in 1..Len(schedule)}

\* C13: build_daily_schedule selects the first max_videos_per_day entries of the
\* de-duplicated concatenation of the learned hours and then the prior table's
\* hours for the weekday, restricted to the active window; so a learned hour
\* inside the window is scheduled whenever the learned hours are at most the cap.
C13_LearnedHoursFirst ==
  ret.op = "build_daily_schedule" =>
    LET merged == ActiveOnly(FirstOccurrences(ret.learned \o PEAK_HOURS[Weekday(clock)]))
        first  == SubSeq(merged, 1, Min(get_max_videos_per_day, Len(merged)))
    IN /\ SlotHours(ret.val) = Range(first)
       /\ Len(ret.learned) <= get_max_videos_per_day
            => Range(ActiveOnly(ret.learned)) \subseteq SlotHours(ret.val)

\* C19: a schedule build_daily_schedule returns has at most max_videos_per_day
\* slots, its hours are pairwise distinct and lie in [6, 23), and its minutes
\* lie in 5..55, on every weekday and for all learned hours.
C19_ScheduleWellFormed ==
  ret.op = "build_daily_schedule" =>
    /\ Len(ret.val) <= get_max_videos_per_day
    /\ \A a, b \in 1..Len(ret.val) : a # b => ret.val[a][1] # ret.val[b][1]
    /\ \A a \in 1..Len(ret.val) :
         /\ ACTIVE_HOURS_START <= ret.val[a][1] /\ ret.val[a][1] < ACTIVE_HOURS_END
         /\ 5 <= ret.val[a][2] /\ ret.val[a][2] <= 55

\* a schedule was built on a Sunday, filled to the cap, while the learned hours
\* hold an hour before the active window
C19_Witness ==
  /\ ret.op = "build_daily_schedule"
  /\ Weekday(clock) = 6
  /\ Len(ret.val) = get_max_videos_per_day
  /\ \E k \in 1..Len(ret.learned) : ret.learned[k] < ACTIVE_HOURS_START

\* the prior table's hours for today inside the active window, earliest first,
\* cut to the cap
PriorSlots ==
  LET prior == {h \in Range(PEAK_HOURS[Weekday(clock)]) :
                  ACTIVE_HOURS_START <= h /\ h < ACTIVE_HOURS_END}
  IN {hs \in SUBSET prior :
        /\ Cardinality(hs) = Min(get_max_videos_per_day, Cardinality(prior))
        /\ \A h \in hs, g \in prior \ hs : h < g}

\* C15: while the store does not answer, build_daily_schedule and should_run_now
\* still return: the learned hours are empty, the tier is "psychology", a
\* counter set during the call is 0, and a schedule built consists of the prior
\* table's hours for today inside the active window, cut to the cap.
C15_StoreDownDegrades ==
  ~db_available =>
    /\ ret.op = "build_daily_schedule" =>
         /\ ret.learned = <<>>
         /\ ret.tier = "psychology"
         /\ SlotHours(ret.val) \in PriorSlots
    /\ build_daily_schedule # {}
    /\ should_run_now # {}
    /\ \A o \in should_run_now :
         /\ daily_run_count.date # o.daily_run_count.date => o.daily_run_count.count = 0
         /\ today_schedule # o.today_schedule => SlotHours(o.today_schedule) \in PriorSlots

\* build_daily_schedule returned a schedule while the store did not answer and
\* held learned hours for today and a record of today
C15_Witness ==
  /\ ~db_available
  /\ ret.op = "build_daily_schedule"
  /\ ret.val # <<>>
  /\ learned_hours_unguarded # {<<>>}
  /\ get_today_video_count(videos, clock) > 0

\* C14: at most one pipeline run started by the scheduler is in flight at any
\* time, whatever the interleaving of the polled run_once and the run_once
\* started at start-up.
C14_OnePipelineAtATime ==
  ~(thread_pc.main = "running" /\ thread_pc.startup = "running")

\* a pipeline run that started in the current clock hour has succeeded: its
\* record carries run_id, the time at which the run started
RanThisHour ==
  \E k \in 1..Len(videos) : videos[k].run_id \div 60 = Timestamp(clock) \div 60

\* C20: a run_once whose pipeline succeeds sets the last-run hour to the hour
\* at which the run started and adds exactly 1 to the daily counter, and from
\* then on should_run_now returns False for the rest of that clock hour; a
\* run_once whose pipeline fails leaves the last-run hour and the daily counter
\* as they were.
C20_RunOnceBookkeeping ==
  [][/\ (ret'.op = "run_once_end" /\ ret'.result)
          => /\ last_run_hour' = ret'.hour
             /\ daily_run_count' = [daily_run_count EXCEPT !.count = @ + 1]
     /\ (ret'.op = "run_once_end" /\ ~ret'.result)
          => UNCHANGED <<last_run_hour, daily_run_count>>
     /\ RanThisHour' => GateAnswers' = {FALSE}]_vars

\* the topics of the records with the smallest created_at among those that
\* have a topic
OldestTopics ==
  {videos[i].topic : i \in {i \in 1..Len(videos) :
     /\ videos[i].topic # <<>>
     /\ \A j \in 1..Len(videos) :
          videos[j].topic # <<>> => videos[i].created_at <= videos[j].created_at}}

\* C18: when the scrape returned topics and _pick_fresh_topic finds none of
\* the candidates fresh, run_pipeline goes on with the topic of the oldest
\* record of the history (smallest created_at).
C18_FallbackIsOldestTopic ==
  (ret.op = "run_pipeline_topic" /\ ret.fallback /\ all_topics(ret.trends) # <<>>)
    => ret.manual_idea \in OldestTopics

\* the counter the store gives for today
StoreCount == [date |-> Today(clock), count |-> get_today_video_count(videos, clock)]

\* C21 as claimed: the first should_run_now after the date has changed (or
\* after a restart) sets the daily counter to the store's count of today's
\* records and rebuilds the cached schedule for today.
C21_FirstGateRefreshes ==
  [][(ret'.op = "should_run_now" /\ daily_run_count.date # Today(clock))
       => /\ daily_run_count' = StoreCount
          /\ schedule_date' = Today(clock)
          /\ today_schedule' \in build_daily_schedule]_vars

\* C21: the first should_run_now after the date has changed that gets past
\* the active-hours and already-ran-this-hour checks sets the daily counter to
\* the store's count of today's records; if that count is below the cap it
\* also rebuilds the cached schedule for today's weekday.
C21_FirstCountingGateRefreshes ==
  [][(/\ ret'.op = "should_run_now"
      /\ daily_run_count.date # Today(clock)
      /\ ret'.reason \notin {"Outside active hours", "Already ran this hour"})
       => /\ daily_run_count' = StoreCount
          /\ (ret'.reason # "Daily cap reached"
                => /\ schedule_date' = Today(clock)
                   /\ today_schedule' \in build_daily_schedule)]_vars

\* the gate has just refreshed a counter of yesterday whose value differs from
\* the store's count of today, and the schedule is today's
C21_Witness ==
  /\ ret.op = "should_run_now"
  /\ ret.reason \in {"OK", "Waiting for", "Not a scheduled slot"}
  /\ clock.day = 1
  /\ daily_run_count = StoreCount
  /\ schedule_date = Today(clock)
  /\ \E i \in 1..Len(videos) : videos[i].created_at < TodayStart(clock)
  /\ daily_run_count.count = 0

\* the pipeline runs of today that are in flight
RunsInFlight ==
  Cardinality({t \in DOMAIN thread_pc :
                 thread_pc[t] = "running" /\ Today(run_now[t]) = Today(clock)})

\* C22: within one day the runs the scheduler has started (in flight or
\* logged), together with the records of today, never exceed
\* max_videos_per_day, also when the start-up thread and the poll run at the
\* same time; and once the counter has reached the cap the gate refuses.
C22_RunsWithinCap ==
  /\ RunsInFlight + get_today_video_count(videos, clock) <= get_max_videos_per_day
  /\ (daily_run_count.date = Today(clock)
        /\ daily_run_count.count >= get_max_videos_per_day)
       => \A o \in should_run_now : ~o.ok

\* the positions of the fresh non-empty candidates of a format in the call
\* that ret records
FreshAt(fmt) ==
  {k \in 1..Len(candidates(ret.trends, ret.intel, fmt)) :
     /\ candidates(ret.trends, ret.intel, fmt)[k] # <<>>
     /\ _topic_is_fresh(candidates(ret.trends, ret.intel, fmt)[k], ret.used_info)}

C24_ConcurrentUpdatesConverge ==
  (ret.op = "update_performance_returned" /\ \A w \in Writers : writer[w].pc = "idle")
    => /\ DOMAIN hourly_performance = {h \in 0..23 : Measured(h) # {}}
       /\ \A h \in DOMAIN hourly_performance :
            hourly_performance[h] = Aggregate(HourRows(videos, h))
       /\ DOMAIN format_performance = {f \in Range(ALL_FORMATS) : MeasuredIn(f) # {}}
       /\ \A f \in DOMAIN format_performance :
            \E topics \in best_topics(videos, f) :
              format_performance[f] = FormatRow(videos, f, topics)

\* the statistics fetch_and_update_all merged for record i in the call that
\* ret' records
MergedFor(i) ==
  merged_stats(IF videos[i].youtube_id # "" THEN ret'.fetched[videos[i].run_id].yt ELSE NoStats,
               IF videos[i].tiktok_id # "" THEN ret'.fetched[videos[i].run_id].tt ELSE NoStats)

\* record i has a platform identifier whose fetch gave statistics
Fetched(i) ==
  \/ videos[i].youtube_id # "" /\ ret'.fetched[videos[i].run_id].yt.ok
  \/ videos[i].tiktok_id # "" /\ ret'.fetched[videos[i].run_id].tt.ok

\* C25: fetch_and_update_all never lowers a record's stored views, it writes a
\* record only when the merged fetched views are strictly greater than the
\* stored ones; and a record whose merged views went up is written whatever
\* happened to the fetches of the other records.
C25_ViewsNeverLowered ==
  [][ret'.op = "fetch_and_update_all"
       => \A i \in 1..Len(videos) :
            /\ videos'[i].views >= videos[i].views
            /\ videos'[i] # videos[i] => MergedFor(i).views > videos[i].views
            /\ (Fetched(i) /\ MergedFor(i).views > videos[i].views)
                 => videos'[i].views = MergedFor(i).views]_vars

\* C26: log_video, update_performance and save_platform_ids never delete a
\* record, keep run_ids unique, and leave every record's post_hour,
\* post_day_of_week, created_at, topic and format as they were at creation.
C26_RecordsAreKept ==
  [][/\ Len(videos') >= Len(videos)
     /\ \A i \in 1..Len(videos) :
          /\ videos'[i].run_id = videos[i].run_id
          /\ videos'[i].post_hour = videos[i].post_hour
          /\ videos'[i].post_day_of_week = videos[i].post_day_of_week
          /\ videos'[i].created_at = videos[i].created_at
          /\ videos'[i].topic = videos[i].topic
          /\ videos'[i].format = videos[i].format
     /\ \A i, j \in 1..Len(videos') : i # j => videos'[i].run_id # videos'[j].run_id]_vars

\* two records; the one log_video was just called for again, at a later hour
\* and with another topic, has statistics and platform identifiers
C26_Witness ==
  /\ ret.op = "log_video"
  /\ Len(videos) = 2
  /\ \E i \in Rows :
       /\ videos[i].run_id = ret.run_id
       /\ videos[i].topic # ret.script_data.topic
       /\ videos[i].post_hour # clock.hour
       /\ videos[i].views > 0
       /\ videos[i].youtube_id # ""

\* C27: when get_viral_candidates is non-empty as run_once starts a run, the
\* pipeline is invoked as a viral follow-up with the topic of the first
\* candidate, the one with the most views; and when the run succeeds with a
\* record of that same topic, logged later than the original, the original is
\* no candidate afterwards.
C27_ViralFollowUpFirst ==
  [][(ret'.op = "run_once" /\ ret'.ran)
       => /\ (\E c \in get_viral_candidates(videos) : c # <<>>)
               => \E c \in get_viral_candidates(videos) :
                    /\ c # <<>>
                    /\ ret'.viral_topic = c[1].topic
                    /\ ret'.best = c[1].run_id
                    /\ \A k \in 1..Len(c) : c[k].views <= c[1].views
          /\ (/\ ret'.val
              /\ ret'.viral_topic # <<>>
              /\ ret'.topic = ret'.viral_topic
              /\ \A i \in 1..Len(videos) :
                   videos[i].run_id = ret'.best
                     => videos[i].created_at < Timestamp(clock))
               => \A c \in get_viral_candidates(videos') :
                    \A k \in 1..Len(c) : c[k].run_id # ret'.best]_vars

\* a follow-up run has just succeeded: its record has the topic of the pumped
\* original, which is older and was the candidate
C27_Witness ==
  /\ ret.op = "run_once"
  /\ ret.val
  /\ ret.viral_topic # <<>>
  /\ ret.topic = ret.viral_topic
  /\ \E i, j \in Rows :
       /\ videos[i].run_id = ret.best
       /\ videos[i].pumped = 1
       /\ videos[j].run_id = Timestamp(clock)
       /\ videos[j].topic = videos[i].topic
       /\ videos[j].created_at > videos[i].created_at

\* C28: the already-ran-this-hour marker is of one day only: when nothing has
\* run today, the hour is a slot of today's schedule, the cap is not reached
\* and the slot's minute has come, should_run_now returns True, whatever hour
\* the last run of an earlier day was made in.
C28_HourMarkerIsPerDay ==
  (get_today_video_count(videos, clock) = 0 /\ is_active_hour
     /\ get_daily_count.count < get_max_videos_per_day)
    => \A o \in should_run_now :
         (/\ o.today_schedule # <<>>
          /\ clock.hour \in schedule_hours(o.today_schedule)
          /\ clock.minute >= target_minute(o.today_schedule, clock.hour))
           => o.ok

\* C29: tier and learned hours agree for every weekday d: with tier
\* 'day-specific' get_best_hours_for_day(d) is a non-empty list taken from the
\* records of weekday d, and with tier 'psychology' it is the empty list.
C29_TierMatchesLearnedHours ==
  \A d \in 0..6 :
    LET learned == get_best_hours_for_day(videos, hourly_performance, d,
                                          get_max_videos_per_day)
        day     == day_specific_hours(videos, d, get_max_videos_per_day)
    IN /\ get_hour_confidence(videos, d).tier = "day-specific"
            => <<>> \notin learned /\ learned = day
       /\ get_hour_confidence(videos, d).tier = "psychology" => learned = {<<>>}

(***************************************************************************)
(* C30: a candidate that is word for word a topic already used, none of    *)
(* whose word-set twins pumped, is never judged fresh by _topic_is_fresh,  *)
(* however few meaningful words the topic has.                             *)
(***************************************************************************)
C30_IdenticalTopicNotFresh ==
  ret.op = "_topic_is_fresh" =>
    LET used   == Range(ret.used_info.used)
        pumped_set == {_topic_words(t) : t \in Range(ret.used_info.pumped)}
    IN (ret.candidate \in used /\ _topic_words(ret.candidate) \notin pumped_set)
         => ~ret.val

====
